---- MODULE Spec2Model ----
(***************************************************************************)
(* Model of the angle recognition test: the stimulus generator of          *)
(* app/test/page.tsx (chain-growth variant), the Test page that sequences  *)
(* the stimuli and records the selections, and the LineCanvas component    *)
(* that lays the option lines out and resolves pointer input.              *)
(*                                                                         *)
(* Angles are held in half degrees (degreeVariance has step 2.5 and the    *)
(* target angles are whole degrees), so 7.5 degrees is 15 and 180 degrees  *)
(* is 360.  HalfDeg converts a whole number of degrees.                    *)
(***************************************************************************)
EXTENDS Integers, Sequences, FiniteSets, TLC

VARIABLES
    settings,       \* the Settings object handed to generateStimuli
    pc,             \* position inside generateStimuli / the page's life cycle
    stimulusIndex,  \* index of the stimulus being generated (Array.from callback)
    targetAngle,    \* targetAngle of the stimulus being generated
    options,        \* options array of the stimulus being generated
    correctCount,   \* correctCount of the uniqueness repair
    repairI,        \* loop variable i of the uniqueness repair
    chainIterations,\* iterations of the chain-growth loop run for this stimulus
    stimuli,        \* the generated stimuli (state of the Test component)
    currentStimulusIndex,   \* Test: index of the displayed stimulus, -1 before the start
    selectedAngle,          \* Test: Null or the selected angle
    startTime,              \* Test: Null or the time the stimulus was shown
    results,                \* Test: the recorded selections
    canvasSize,             \* Test: size handed to LineCanvas, in pixels
    isMobile,               \* Test: mobile device detected
    showFullscreenPrompt,   \* Test: the fullscreen prompt is displayed
    fullscreenPending,      \* handleFullscreenPrompt calls suspended at their await
    testResults,            \* sessionStorage["testResults"]: Null or the stored list
    route,                  \* "/test", "pushed" (router.push called), "/results", "crashed"
    clock,                  \* the last value Date.now() returned
    lines,                  \* LineCanvas: the laid out lines
    hoveredLine,            \* LineCanvas: Null or the hovered line
    layoutCount,            \* number of layout passes (each draws fresh line ids)
    loadedResults,          \* Results page: Null before its load effect, then its results state
    pointer,                \* LineCanvas on its own: Null or the last pointer event
    localStorage,           \* localStorage["dementiaTestSettings"]: Null or the stored text
    quadrantIndex,          \* legacy generateStimuli: index of the quadrant being filled
    quadrantAngles,         \* legacy generateStimuli: the angles of that quadrant
    attempts,               \* legacy generateStimuli: attempts of the current do-while loop
    localTargetAngles       \* Settings page: the texts of the target angle inputs

\* the locals of generateStimuli
genLocals == <<settings, pc, stimulusIndex, targetAngle, options, correctCount, repairI,
               chainIterations>>
genVars == <<settings, pc, stimulusIndex, targetAngle, options, correctCount, repairI,
             chainIterations, stimuli>>
\* state outside the Test page
legacyVars == <<quadrantIndex, quadrantAngles, attempts>>
siteVars == <<loadedResults, pointer, localStorage, localTargetAngles, legacyVars>>
pageVars == <<currentStimulusIndex, selectedAngle, startTime, results, canvasSize, isMobile,
              showFullscreenPrompt, fullscreenPending, testResults, route, clock, siteVars>>
canvasVars == <<lines, hoveredLine, layoutCount>>
vars == <<genVars, pageVars, canvasVars>>

----------------------------------------------------------------------------
(* Bounds of the model *)

\* largest stimuliCount explored
MaxStimuliCount == 2
\* largest anglesPerQuadrant (the settings page's max)
MaxAnglesPerQuadrant == 4
\* longest options list whose shuffle is followed into every permutation
ExhaustiveShuffleLen == 4

\* largest value of Date.now() (the clock starts at 0)
MaxClock == 1
\* largest number of layout passes after which the window is still resized
MaxLayouts == 2
MaxPending == 1
MaxPointedLines == 2
MaxShift == 1
\* largest stimuliCount entered on the settings page
MaxStoredStimuli == 3

HalfDeg(d) == 2 * d

\* null, and a non-null value x, of a nullable state
Null == <<>>
Some(x) == <<x>>

\* JavaScript's % : the remainder takes the sign of the dividend
JsRem(a, n) == IF a >= 0 THEN a % n ELSE 0 - ((0 - a) % n)

Max(a, b) == IF a >= b THEN a ELSE b
Min(a, b) == IF a <= b THEN a ELSE b

----------------------------------------------------------------------------
(* AngleMath *)

getAngleCategory(angle) ==
    LET normalizedAngle == JsRem(angle, HalfDeg(180))
    IN  IF normalizedAngle = HalfDeg(90) THEN "right"
        ELSE IF normalizedAngle < HalfDeg(90) THEN "acute"
        ELSE "obtuse"

normalizeAngle(angle) == JsRem(JsRem(angle, HalfDeg(360)) + HalfDeg(360), HalfDeg(360))

\* the clamp of a new angle into the range of the target's category
clampToCategory(targetCategory, newAngle) ==
    IF targetCategory = "acute" THEN Max(HalfDeg(0), Min(HalfDeg(80), newAngle))
    ELSE IF targetCategory = "obtuse" THEN Max(HalfDeg(100), Min(HalfDeg(180), newAngle))
    ELSE Max(HalfDeg(80), Min(HalfDeg(100), newAngle))

----------------------------------------------------------------------------
(* Configurations handed to the generator *)

ArrayFromLengthUnclamped(n) == IF n >= 0 THEN n ELSE 0 - n

\* Array.from({ length: n }): ToLength clamps a negative length to 0
ArrayFromLength(n) == IF n > 0 THEN n ELSE 0

\* target angles the settings page can store (whole degrees), 0 being the
\* falsy slot that generateStimuli replaces by a random multiple of 10
TargetAngleSet == {0, 10, 30, 80, 90, 170}
\* degreeVariance values (half degrees): 7.5, 10 and 50 degrees
DegreeVarianceSet == {15, 20, 100}
\* outcomes of Math.floor(Math.random() * 36) explored
RandomTargetUnits == {0, 9, 18, 27, 35}
\* target angles of the configurations with several stimuli or several
\* angles per quadrant
WideTargetAngleSet == {30, 90}

SeqsUpTo(S, n) == UNION {[1..k -> S] : k \in 0..n}

\* Valid configurations of the data model: anglesPerQuadrant and
\* correctQuadrant in 1..4, degreeVariance in [7.5, 50]; also stimuliCount
\* -1 and 0.  Every random outcome is followed from each configuration, so
\* the configurations with more than one stimulus or more than one angle per
\* quadrant are those of the largest variance, where clamping leaves few
\* distinct option lists.
Configurations ==
    {c \in [stimuliCount : (0 - 1)..MaxStimuliCount,
            anglesPerQuadrant : 1..MaxAnglesPerQuadrant,
            correctQuadrant : 1..4,
            useCorrectQuadrant : BOOLEAN,
            degreeVariance : DegreeVarianceSet,
            targetAngles : SeqsUpTo(TargetAngleSet, MaxStimuliCount)] :
        /\ Len(c.targetAngles) <= Max(c.stimuliCount, 0)
        /\ (~c.useCorrectQuadrant) => c.correctQuadrant = 1
        /\ (c.stimuliCount > 1 \/ c.anglesPerQuadrant > 1) =>
              /\ c.degreeVariance = HalfDeg(50)
              /\ \A k \in 1..Len(c.targetAngles) : c.targetAngles[k] \in WideTargetAngleSet
              /\ Len(c.targetAngles) = c.stimuliCount
        /\ c.anglesPerQuadrant > 1 => c.stimuliCount <= 1
        /\ c.anglesPerQuadrant > 2 =>
              \A k \in 1..Len(c.targetAngles) : c.targetAngles[k] = 30}

----------------------------------------------------------------------------
(* SettingsProvider (contexts/SettingsContext.tsx) *)

\* lines 25-32; degreeVariance 7.5 in half degrees
defaultSettings ==
    [stimuliCount |-> 3,
     anglesPerQuadrant |-> 1,
     correctQuadrant |-> 1,
     useCorrectQuadrant |-> FALSE,
     degreeVariance |-> HalfDeg(15) \div 2,
     targetAngles |-> <<30, 60, 120>>]

\* lines 6-13: the members of a Settings object, in the order they are kept
SettingsKeys ==
    <<"stimuliCount", "anglesPerQuadrant", "correctQuadrant", "useCorrectQuadrant",
      "degreeVariance", "targetAngles">>

\* NaN, the value of Number.parseFloat for a text that holds no number, and
\* null, the value JSON gives it: held as two values that no number of the
\* model takes
NaN == 0 - 1000000
null == NaN - 1

\* JSON.stringify of a number: NaN is written as null
StringifyNumber(value) == IF value = NaN THEN null ELSE value

\* JSON.stringify(settings): the text, as its list of members
StringifySettings(s) ==
    [k \in 1..Len(SettingsKeys) |->
        <<SettingsKeys[k],
          IF SettingsKeys[k] = "degreeVariance"
          THEN StringifyNumber(s[SettingsKeys[k]])
          ELSE s[SettingsKeys[k]]>>]

\* JSON.parse(savedSettings): the object of the members of the text
ParseSettings(text) ==
    [key \in {text[k][1] : k \in 1..Len(text)} |->
        text[CHOOSE k \in 1..Len(text) : text[k][1] = key][2]]

\* line 46: parsed.stimuliCount && Array.isArray(parsed.targetAngles)
LoadAccepts(parsed) ==
    /\ "stimuliCount" \in DOMAIN parsed /\ parsed.stimuliCount # 0
    /\ "targetAngles" \in DOMAIN parsed

\* line 62: { ...prevSettings, ...newSettings }
Merge(prevSettings, newSettings) ==
    [key \in DOMAIN prevSettings |->
        IF key \in DOMAIN newSettings THEN newSettings[key] ELSE prevSettings[key]]

\* lines 61-78: the state updater; random[i] is the outcome of
\* Math.floor(Math.random() * 36) * 10 for slot i
UpdatedSettings(prevSettings, newSettings, random) ==
    LET updatedSettings == Merge(prevSettings, newSettings)
    IN  IF "stimuliCount" \in DOMAIN newSettings
           /\ newSettings.stimuliCount # prevSettings.stimuliCount
        THEN [updatedSettings EXCEPT !.targetAngles =
                [i \in 1..newSettings.stimuliCount |->
                    IF i <= Len(prevSettings.targetAngles) /\ prevSettings.targetAngles[i] # 0
                    THEN prevSettings.targetAngles[i]
                    ELSE random[i]]]
        ELSE updatedSettings

\* the variables the provider and the settings page leave alone
outsideSettings ==
    <<pc, stimulusIndex, targetAngle, options, correctCount, repairI, chainIterations,
      stimuli, currentStimulusIndex, selectedAngle, startTime, results, canvasSize,
      isMobile, showFullscreenPrompt, fullscreenPending, testResults, clock,
      loadedResults, pointer, legacyVars, canvasVars>>
outsideProvider == <<outsideSettings, route>>

\* angle.toString() of a number: its text
toString(number) == <<"text", number>>

\* Number.parseInt(text) of the text of a number
parseInt(text) == text[2]

\* settings/page.tsx lines 34-36: setLocalTargetAngles(targetAngles.map(...))
LocalTargetAngles(targetAngles) ==
    [i \in 1..Len(targetAngles) |-> toString(targetAngles[i])]

\* the outcomes of the random fill that updateSettings(newSettings) draws
RandomFills(prevSettings, newSettings) ==
    IF "stimuliCount" \in DOMAIN newSettings
       /\ newSettings.stimuliCount # prevSettings.stimuliCount
    THEN [1..newSettings.stimuliCount -> {r * 10 : r \in RandomTargetUnits}]
    ELSE {<<>>}

\* lines 60-87: updateSettings(newSettings) on the settings page; the
\* updater writes the new settings to localStorage and the sync effect writes
\* them again; when the targetAngles array is a new one the page's effect
\* (settings/page.tsx lines 34-36) resets the texts of the inputs
SetSettings(newSettings) ==
    \E random \in RandomFills(settings, newSettings) :
       LET updatedSettings == UpdatedSettings(settings, newSettings, random)
       IN  /\ settings' = updatedSettings
           /\ localStorage' = Some(StringifySettings(updatedSettings))
           /\ localTargetAngles' =
                 IF \/ "targetAngles" \in DOMAIN newSettings
                    \/ /\ "stimuliCount" \in DOMAIN newSettings
                       /\ newSettings.stimuliCount # settings.stimuliCount
                 THEN LocalTargetAngles(updatedSettings.targetAngles)
                 ELSE localTargetAngles

updateSettings(newSettings) ==
    /\ pc = "generate" /\ route = "/settings"
    /\ SetSettings(newSettings)
    /\ UNCHANGED outsideProvider

\* settings/page.tsx lines 84-86, called with Number(e.target.value) (line 102)
handleStimuliCountChange(value) == updateSettings([stimuliCount |-> value])

\* the text of an input of type number: a number, here in tenths (7.4 is
\* Text(74)), or the empty text of a field that is empty or holds no number
Text(tenths) == <<"text", tenths>>
EmptyText == <<"text">>

\* texts entered in the degree variance field: empty, -5, 7.4, 8.8, 50, 100
VarianceTexts == {EmptyText, Text(0 - 50), Text(74), Text(88), Text(500), Text(1000)}

\* Number.parseFloat(value), in tenths
parseFloat(value) == IF value = EmptyText THEN NaN ELSE value[2]

\* Math.round(numValue / 2.5) * 2.5 in half degrees, numValue in tenths;
\* Math.round rounds a half upwards
RoundToStep(numValue) ==
    IF numValue = NaN THEN NaN ELSE ((2 * numValue + 25) \div 50) * 5

\* Math.max(a, b) and Math.min(a, b) of numbers: NaN if either is NaN
MathMax(a, b) == IF a = NaN \/ b = NaN THEN NaN ELSE Max(a, b)
MathMin(a, b) == IF a = NaN \/ b = NaN THEN NaN ELSE Min(a, b)

\* settings/page.tsx lines 56-61
handleDegreeVarianceChange(value) ==
    LET numValue == parseFloat(value)
        roundedValue == MathMax(15, MathMin(HalfDeg(50), RoundToStep(numValue)))
    IN  updateSettings([degreeVariance |-> roundedValue])

\* the legacy settings page (part_002 lines 24-27): Number(value) of the
\* empty text is 0; Math.round(Number(value) / 10) * 10, clamped to [10, 50]
LegacyDegreeVariance(value) ==
    LET number == IF value = EmptyText THEN 0 ELSE value[2]
    IN  MathMax(HalfDeg(10), MathMin(HalfDeg(50), ((number + 50) \div 100) * HalfDeg(10)))

\* texts entered in the angles per quadrant field: empty, 3, 7
QuadrantTexts == {EmptyText, Text(30), Text(70)}

\* Number(value) of the text of a whole number; the empty text gives 0
Number(value) == IF value = EmptyText THEN 0 ELSE value[2] \div 10

\* settings/page.tsx lines 56-61, 142, 154: the other changes the settings
\* page makes
SettingsChange ==
    \/ \E n \in 0..MaxStoredStimuli : handleStimuliCountChange(n)
    \/ \E value \in VarianceTexts : handleDegreeVarianceChange(value)
    \/ \E value \in QuadrantTexts :
          updateSettings([anglesPerQuadrant |-> MathMin(Number(value), 4)])
    \/ \E b \in BOOLEAN : updateSettings([useCorrectQuadrant |-> b])

\* values typed into a target angle input
TypedAngles == {45}

\* settings/page.tsx lines 67-78 called from the input's onChange (lines
\* 120-123), which hands it a number from 1 to 179 as text
handleTargetAngleChange(index, value) ==
    /\ pc = "generate" /\ route = "/settings"
    /\ index + 1 \in 1..Len(localTargetAngles)
    /\ localTargetAngles' =
          [localTargetAngles EXCEPT ![index + 1] = toString(Min(179, Max(1, value)))]
    /\ UNCHANGED <<settings, localStorage, outsideProvider>>

\* settings/page.tsx lines 42-50: the form is submitted; router.push("/")
\* leaves the settings page
handleSubmit ==
    /\ pc = "generate" /\ route = "/settings"
    /\ \E random \in RandomFills(settings, [targetAngles |-> <<>>]) :
         LET numericTargetAngles ==
                [i \in 1..Len(localTargetAngles) |-> parseInt(localTargetAngles[i])]
             updatedSettings ==
                UpdatedSettings(settings, [targetAngles |-> numericTargetAngles], random)
         IN  /\ settings' = updatedSettings
             /\ localStorage' = Some(StringifySettings(updatedSettings))
    /\ localTargetAngles' = <<>>
    /\ route' = "/"
    /\ UNCHANGED outsideSettings

\* the settings page is opened: its effect (lines 34-36) fills the inputs
OpenSettings ==
    /\ pc = "generate" /\ route # "/settings"
    /\ route' = "/settings"
    /\ localTargetAngles' = LocalTargetAngles(settings.targetAngles)
    /\ UNCHANGED <<settings, localStorage, outsideSettings>>

\* lines 35-57, 82-87: the page is loaded again and the provider mounts with
\* the default settings.  The load effect reads localStorage and queues
\* setSettings(parsed) if the text passes the validation; the sync effect of
\* the same commit writes the default settings; the queued update is then
\* rendered and the sync effect writes the loaded settings.  A settings page
\* mounted below the provider fills its inputs from the settings.
ProviderMount ==
    /\ pc = "generate"
    /\ LET savedSettings == localStorage
           loaded == IF savedSettings # Null /\ LoadAccepts(ParseSettings(savedSettings[1]))
                     THEN Some(ParseSettings(savedSettings[1]))
                     ELSE Null
           firstSync == Some(StringifySettings(defaultSettings))
           mounted == IF loaded # Null THEN loaded[1] ELSE defaultSettings
       IN  /\ settings' = mounted
           /\ localStorage' = IF loaded # Null
                               THEN Some(StringifySettings(loaded[1]))
                               ELSE firstSync
           /\ localTargetAngles' = IF route = "/settings"
                                    THEN LocalTargetAngles(mounted.targetAngles)
                                    ELSE <<>>
    /\ UNCHANGED outsideProvider

----------------------------------------------------------------------------
(* generateStimuli, chain-growth variant (app/test/page.tsx) *)

totalAnglesNeeded(s) == s.anglesPerQuadrant * 4

ChainLoopRunsOnePastTheEnd(opts, s) == Len(opts) <= totalAnglesNeeded(s)

\* line 130: the condition of the chain-growth loop
ChainLoopRuns(opts, s) == Len(opts) < totalAnglesNeeded(s)

PushUnlessPresent(seq, x) == IF \E k \in 1..Len(seq) : seq[k] = x THEN seq ELSE Append(seq, x)

\* options.push(newAngle)
Push(seq, x) == Append(seq, x)

\* targetAngles[stimulusIndex] is falsy: undefined past the end of the array, or 0
TargetSlotFalsy(s, i) == i + 1 > Len(s.targetAngles) \/ s.targetAngles[i + 1] = 0

\* number of elements equal to x: options.filter(a => a === x).length
CountOf(seq, x) == Cardinality({k \in 1..Len(seq) : seq[k] = x})

\* options.findIndex / options.indexOf, 0-based, -1 when absent
IndexOf(seq, x) ==
    IF \E k \in 1..Len(seq) : seq[k] = x
    THEN (CHOOSE k \in 1..Len(seq) : seq[k] = x /\ \A j \in 1..(k - 1) : seq[j] # x) - 1
    ELSE 0 - 1

\* options.splice(index, 1) with a 0-based index
Splice1(seq, index) == [k \in 1..(Len(seq) - 1) |-> IF k <= index THEN seq[k] ELSE seq[k + 1]]

\* one chain-growth candidate: base + direction * degreeVariance, normalized, clamped
ChainAngle(baseAngle, direction, degreeVariance, targetCategory) ==
    clampToCategory(targetCategory, normalizeAngle(baseAngle + direction * degreeVariance))

\* the replacement angle of the uniqueness repair
RepairAngle(baseAngle, direction, degreeVariance, target, targetCategory) ==
    LET newAngle == normalizeAngle(baseAngle + direction * degreeVariance)
        moved == IF newAngle - target < HalfDeg(1) /\ target - newAngle < HalfDeg(1)
                 THEN normalizeAngle(target + degreeVariance * (IF direction = 1 THEN 1 ELSE 0 - 1))
                 ELSE newAngle
    IN  clampToCategory(targetCategory, moved)

InitWith(configurations) ==
    /\ settings \in configurations
    /\ pc = "generate"
    /\ stimulusIndex = 0
    /\ targetAngle = 0
    /\ options = <<>>
    /\ correctCount = 0
    /\ repairI = 0
    /\ chainIterations = 0
    /\ stimuli = <<>>
    /\ currentStimulusIndex = 0 - 1
    /\ selectedAngle = Null
    /\ startTime = Null
    /\ results = <<>>
    /\ canvasSize = 400
    /\ isMobile = FALSE
    /\ showFullscreenPrompt = FALSE
    /\ fullscreenPending = 0
    /\ testResults = Null
    /\ route = "/test"
    /\ clock = 0
    /\ lines = <<>>
    /\ hoveredLine = Null
    /\ layoutCount = 0
    /\ loadedResults = Null
    /\ pointer = Null
    /\ localStorage = Some(StringifySettings(settings))
    /\ quadrantIndex = 0
    /\ quadrantAngles = <<>>
    /\ attempts = 0
    /\ localTargetAngles = <<>>

Init == InitWith(Configurations)

\* line 117: the Array.from callback runs for stimulusIndex 0 .. length-1
\* lines 119-127: resolve the target angle, start options with it
StartStimulus ==
    /\ pc = "generate"
    /\ stimulusIndex < ArrayFromLength(settings.stimuliCount)
    /\ \E r \in RandomTargetUnits :
         LET raw == IF TargetSlotFalsy(settings, stimulusIndex)
                    THEN HalfDeg(r * 10)
                    ELSE HalfDeg(settings.targetAngles[stimulusIndex + 1])
         IN  /\ targetAngle' = normalizeAngle(raw)
             /\ options' = <<normalizeAngle(raw)>>
    /\ pc' = "chain"
    /\ chainIterations' = 0
    /\ UNCHANGED <<settings, stimulusIndex, correctCount, repairI, stimuli, pageVars, canvasVars>>

\* lines 130-150: one iteration of the chain-growth loop
ChainGrowth ==
    /\ pc = "chain"
    /\ ChainLoopRuns(options, settings)
    /\ \E b \in 1..Len(options), direction \in {1, 0 - 1} :
         options' = Push(options,
                      ChainAngle(options[b], direction, settings.degreeVariance,
                                 getAngleCategory(targetAngle)))
    /\ chainIterations' = chainIterations + 1
    /\ UNCHANGED <<settings, pc, stimulusIndex, targetAngle, correctCount, repairI, stimuli, pageVars, canvasVars>>

\* lines 153-154: leave the loop, count the copies of the target
ChainDone ==
    /\ pc = "chain"
    /\ ~ChainLoopRuns(options, settings)
    /\ correctCount' = CountOf(options, targetAngle)
    /\ repairI' = 0
    /\ pc' = IF CountOf(options, targetAngle) > 1 THEN "repair" ELSE "shuffle"
    /\ UNCHANGED <<settings, stimulusIndex, targetAngle, options, chainIterations, stimuli, pageVars, canvasVars>>

\* lines 156-181: one iteration of the repair loop
RepairStep ==
    /\ pc = "repair"
    /\ repairI < correctCount - 1
    /\ LET index == IndexOf(options, targetAngle)
       IN  IF index > 0
           THEN LET spliced == Splice1(options, index)
                IN  \E b \in 1..Len(spliced), direction \in {1, 0 - 1} :
                      options' = Push(spliced,
                                   RepairAngle(spliced[b], direction, settings.degreeVariance,
                                               targetAngle, getAngleCategory(targetAngle)))
           ELSE options' = options
    /\ repairI' = repairI + 1
    /\ UNCHANGED <<settings, pc, stimulusIndex, targetAngle, correctCount, chainIterations, stimuli, pageVars, canvasVars>>

RepairDone ==
    /\ pc = "repair"
    /\ ~(repairI < correctCount - 1)
    /\ pc' = "shuffle"
    /\ UNCHANGED <<settings, stimulusIndex, targetAngle, options, correctCount, repairI, chainIterations, stimuli, pageVars, canvasVars>>

\* The outcomes of the comparator-driven sort that are followed: every
\* permutation of 1..n for a list of up to ExhaustiveShuffleLen elements,
\* the rotations and the reversed rotations for a longer one.
ShufflePermutations(n) ==
    IF n <= ExhaustiveShuffleLen
    THEN {p \in [1..n -> 1..n] : \A i, j \in 1..n : p[i] = p[j] => i = j}
    ELSE {[k \in 1..n |-> ((k - 1 + r) % n) + 1] : r \in 0..(n - 1)}
         \cup {[k \in 1..n |-> ((n - k + r) % n) + 1] : r \in 0..(n - 1)}

\* line 185: options.sort(() => Math.random() - 0.5) leaves some permutation
Shuffle ==
    /\ pc = "shuffle"
    /\ \E p \in ShufflePermutations(Len(options)) :
         options' = [k \in 1..Len(options) |-> options[p[k]]]
    /\ pc' = "quadrant"
    /\ UNCHANGED <<settings, stimulusIndex, targetAngle, correctCount, repairI, chainIterations, stimuli, pageVars, canvasVars>>

\* an assignment a[i] = a[j] in place of the exchange
SwapOverwriting(seq, i, j) == [seq EXCEPT ![i + 1] = seq[j + 1]]

\* [a[i], a[j]] = [a[j], a[i]] with 0-based indices inside the array
Swap(seq, i, j) == [seq EXCEPT ![i + 1] = seq[j + 1], ![j + 1] = seq[i + 1]]

\* lines 188-203: quadrant placement, then the callback returns the stimulus
PlaceAndEmit ==
    /\ pc = "quadrant"
    /\ LET quadrantSize == settings.anglesPerQuadrant
           targetQuadrantStart == (settings.correctQuadrant - 1) * quadrantSize
           targetQuadrantEnd == targetQuadrantStart + quadrantSize
           targetIndex == IndexOf(options, targetAngle)
       IN  \E placed \in
              (IF settings.useCorrectQuadrant
                  /\ (targetIndex < targetQuadrantStart \/ targetIndex >= targetQuadrantEnd)
               THEN {Swap(options, targetIndex, targetQuadrantStart + r) : r \in 0..(quadrantSize - 1)}
               ELSE {options}) :
             /\ options' = placed
             /\ stimuli' = Append(stimuli, [targetAngle |-> targetAngle, options |-> placed])
    /\ stimulusIndex' = stimulusIndex + 1
    /\ pc' = "generate"
    /\ UNCHANGED <<settings, targetAngle, correctCount, repairI, chainIterations, pageVars, canvasVars>>

\* Array.from returns: the stimuli become the Test component's state
GenerateDone ==
    /\ pc = "generate"
    /\ ~(stimulusIndex < ArrayFromLength(settings.stimuliCount))
    /\ pc' = "render"
    /\ UNCHANGED <<settings, stimulusIndex, targetAngle, options, correctCount, repairI, chainIterations, stimuli, pageVars, canvasVars>>

generateStimuli ==
    \/ StartStimulus
    \/ ChainGrowth
    \/ ChainDone
    \/ RepairStep
    \/ RepairDone
    \/ Shuffle
    \/ PlaceAndEmit
    \/ GenerateDone

----------------------------------------------------------------------------
(* LineCanvas: layout (part_004 is components/LineCanvas.tsx)               *)
(*                                                                         *)
(* Coordinates are held in tenths of a pixel; cosines in ten-thousandths.  *)
(* The option angles of the configurations above are multiples of 2.5      *)
(* degrees, which is the step of the cosine table.                         *)

Px(n) == 10 * n

Abs(a) == IF a >= 0 THEN a ELSE 0 - a

\* a / b rounded to the nearest integer, b > 0
RoundDiv(a, b) == (2 * a + b) \div (2 * b)

\* 10000 * cos(2.5 k degrees), k = 0..36
CosTable ==
    <<10000, 9990, 9962, 9914, 9848, 9763, 9659, 9537, 9397, 9239, 9063, 8870, 8660,
      8434, 8192, 7934, 7660, 7373, 7071, 6756, 6428, 6088, 5736, 5373, 5000, 4617,
      4226, 3827, 3420, 3007, 2588, 2164, 1736, 1305, 872, 436, 0>>

\* 10000 * Math.cos(angle * Math.PI / 180), angle in half degrees
Cos(angle) ==
    LET k == (angle % HalfDeg(360)) \div 5
    IN  IF k <= 36 THEN CosTable[k + 1]
        ELSE IF k <= 72 THEN 0 - CosTable[72 - k + 1]
        ELSE IF k <= 108 THEN 0 - CosTable[k - 72 + 1]
        ELSE CosTable[144 - k + 1]

\* 10000 * Math.sin(angle * Math.PI / 180)
Sin(angle) == Cos(angle - HalfDeg(90))

\* Math.ceil(a / b) for a >= 0, b > 0
CeilDiv(a, b) == (a + b - 1) \div b

\* lines 47-87: the anchor of option `index` (0-based)
\* LayoutPosition with the lines dealt round-robin to the quadrants
LayoutPositionRoundRobin(size, anglesPerQuadrant, index) ==
    LET quadrantSize == Px(size) \div 2
        quadrant == index % 4
        padding == (Px(size) * 15) \div 100
    IN  [x |-> IF quadrant % 2 = 0 THEN padding ELSE quadrantSize + padding,
         y |-> IF quadrant < 2 THEN padding ELSE quadrantSize + padding]

\* LayoutPosition with the left and right halves of the canvas exchanged
LayoutPositionMirrored(size, anglesPerQuadrant, index) ==
    LET position == LayoutPositionRoundRobin(size, anglesPerQuadrant, index)
    IN  [x |-> Px(size) - position.x, y |-> position.y]

LayoutPosition(size, anglesPerQuadrant, index) ==
    LET quadrantSize == Px(size) \div 2
        quadrant == index \div anglesPerQuadrant
        angleIndexInQuadrant == index % anglesPerQuadrant
        padding == (Px(size) * 15) \div 100
        availableSpace == quadrantSize - padding * 2
    IN  IF anglesPerQuadrant = 1
        THEN [x |-> IF quadrant % 2 = 0 THEN padding ELSE quadrantSize + padding,
              y |-> IF quadrant < 2 THEN padding ELSE quadrantSize + padding]
        ELSE IF anglesPerQuadrant = 2
        THEN [x |-> IF quadrant % 2 = 0
                    THEN padding + angleIndexInQuadrant * availableSpace
                    ELSE quadrantSize + padding + (1 - angleIndexInQuadrant) * availableSpace,
              y |-> IF quadrant < 2 THEN padding ELSE quadrantSize + padding]
        ELSE IF anglesPerQuadrant = 3
        THEN IF angleIndexInQuadrant = 0
             THEN [x |-> IF quadrant % 2 = 0 THEN padding ELSE quadrantSize + padding,
                   y |-> IF quadrant < 2 THEN padding ELSE quadrantSize + padding]
             ELSE [x |-> IF quadrant % 2 = 0
                         THEN padding + (angleIndexInQuadrant - 1) * availableSpace
                         ELSE quadrantSize + padding + (2 - angleIndexInQuadrant) * availableSpace,
                   y |-> IF quadrant < 2
                         THEN padding + availableSpace
                         ELSE quadrantSize + padding + availableSpace]
        ELSE [x |-> IF quadrant % 2 = 0
                    THEN padding + (angleIndexInQuadrant % 2) * availableSpace
                    ELSE quadrantSize + padding + (1 - (angleIndexInQuadrant % 2)) * availableSpace,
              y |-> IF quadrant < 2
                    THEN (IF angleIndexInQuadrant \div 2 = 0 THEN padding ELSE padding + availableSpace)
                    ELSE (IF angleIndexInQuadrant \div 2 = 0
                          THEN quadrantSize + padding
                          ELSE quadrantSize + padding + availableSpace)]

\* lines 40-97: the layout effect; pass numbers the layout pass, whose line
\* ids (random tokens in the code) are fresh
LayoutLines(angles, size, pass) ==
    LET anglesPerQuadrant == CeilDiv(Len(angles), 4)
    IN  [k \in 1..Len(angles) |->
            [angle |-> angles[k],
             id |-> <<pass, k>>,
             quadrant |-> (k - 1) \div anglesPerQuadrant,
             position |-> LayoutPosition(size, anglesPerQuadrant, k - 1)]]

----------------------------------------------------------------------------
(* LineCanvas: hit test *)

\* lines 153-179
isPointNearLine(x, y, line, size) ==
    LET lineLength == Min(Px(size) \div 3, Px(150))
        padding == Px(20)
        rawEndX == line.position.x + RoundDiv(Cos(line.angle) * lineLength, 10000)
        rawEndY == line.position.y - RoundDiv(Sin(line.angle) * lineLength, 10000)
        endX == Max(padding, Min(rawEndX, Px(size) - padding))
        endY == Max(padding, Min(rawEndY, Px(size) - padding))
        numerator == Abs((endY - line.position.y) * x - (endX - line.position.x) * y
                         + endX * line.position.y - endY * line.position.x)
        denominator2 == (endY - line.position.y) * (endY - line.position.y)
                        + (endX - line.position.x) * (endX - line.position.x)
        \* numerator / sqrt(denominator2) <= 5 pixels
        quotient == numerator \div Px(5)
        distToLineOk == /\ denominator2 > 0
                        /\ quotient <= Px(300)
                        /\ quotient * quotient <= denominator2
        isWithinLineSegment ==
            /\ x >= Min(line.position.x, endX) - Px(10)
            /\ x <= Max(line.position.x, endX) + Px(10)
            /\ y >= Min(line.position.y, endY) - Px(10)
            /\ y <= Max(line.position.y, endY) + Px(10)
    IN  distToLineOk /\ isWithinLineSegment

\* Math.hypot(position.x - x, position.y - y), squared
AnchorDistance2(line, x, y) ==
    (line.position.x - x) * (line.position.x - x) + (line.position.y - y) * (line.position.y - y)

FirstCandidateLine(ls, x, y, size) ==
    LET near == {k \in 1..Len(ls) : isPointNearLine(x, y, ls[k], size)}
    IN  IF near = {} THEN Null
        ELSE Some(ls[CHOOSE k \in near : \A j \in near : k <= j])

NearestAnchorLine(ls, x, y, size) ==
    IF ls = <<>> THEN Null
    ELSE Some(ls[CHOOSE k \in 1..Len(ls) :
                   \A j \in 1..Len(ls) :
                      \/ AnchorDistance2(ls[k], x, y) < AnchorDistance2(ls[j], x, y)
                      \/ (AnchorDistance2(ls[k], x, y) = AnchorDistance2(ls[j], x, y) /\ k <= j)])

\* lines 193-200 and 219-226: lines.filter(isPointNearLine), then the reduce
\* that keeps the first line of the least anchor distance; Null when no line
\* is near
ClosestLine(ls, x, y, size) ==
    LET near == {k \in 1..Len(ls) : isPointNearLine(x, y, ls[k], size)}
    IN  IF near = {} THEN Null
        ELSE Some(ls[CHOOSE k \in near :
                       \A j \in near :
                          \/ AnchorDistance2(ls[k], x, y) < AnchorDistance2(ls[j], x, y)
                          \/ (AnchorDistance2(ls[k], x, y) = AnchorDistance2(ls[j], x, y) /\ k <= j)])

\* a reduce that keeps the current line also when the distances are equal
RECURSIVE ReduceClosestLastOfTies(_, _, _, _)
ReduceClosestLastOfTies(rest, closest, x, y) ==
    IF rest = <<>> THEN closest
    ELSE LET current == Head(rest)
         IN  ReduceClosestLastOfTies(Tail(rest),
                           IF AnchorDistance2(current, x, y) <= AnchorDistance2(closest, x, y)
                           THEN current ELSE closest,
                           x, y)

\* lines 194-198: clickedLines.reduce(...) from its first element: the
\* current line replaces the closest one only when its anchor is strictly
\* nearer
RECURSIVE ReduceClosest(_, _, _, _)
ReduceClosest(rest, closest, x, y) ==
    IF rest = <<>> THEN closest
    ELSE LET current == Head(rest)
         IN  ReduceClosest(Tail(rest),
                           IF AnchorDistance2(current, x, y) < AnchorDistance2(closest, x, y)
                           THEN current ELSE closest,
                           x, y)

\* lines 191-199 of handleCanvasClick: lines.filter(isPointNearLine) and the
\* reduce over the clicked lines; Null when no line was clicked
ClickedLine(ls, x, y, size) ==
    LET clickedLines == SelectSeq(ls, LAMBDA line : isPointNearLine(x, y, line, size))
    IN  IF Len(clickedLines) > 0
        THEN Some(ReduceClosest(Tail(clickedLines), Head(clickedLines), x, y))
        ELSE Null

\* Pointer positions followed: the anchors of the first MaxPointedLines
\* lines, the point 30 pixels along the first line, and the canvas centre.
PointerPositions(ls, size) ==
    {[x |-> ls[k].position.x, y |-> ls[k].position.y] : k \in 1..Min(Len(ls), MaxPointedLines)}
    \cup {[x |-> ls[k].position.x + RoundDiv(Cos(ls[k].angle) * Px(30), 10000),
           y |-> ls[k].position.y - RoundDiv(Sin(ls[k].angle) * Px(30), 10000)] :
              k \in 1..Min(Len(ls), 1)}
    \cup {[x |-> Px(size) \div 2, y |-> Px(size) \div 2]}

----------------------------------------------------------------------------
(* The Test page (app/test/page.tsx) *)

\* values Date.now() can return next: time does not run backwards
Times == clock..MaxClock

\* canvas sizes handleResize computes from the window (line 261): the default
\* and the cap
CanvasSizes == {400, 650}

\* the configurations of the sessions followed: one angle per quadrant, the
\* largest variance, target 30, placed in the first quadrant
SessionConfigurations ==
    {c \in Configurations :
        /\ c.stimuliCount >= 0
        /\ c.anglesPerQuadrant = 1
        /\ c.degreeVariance = HalfDeg(50)
        /\ Len(c.targetAngles) = c.stimuliCount
        /\ \A k \in 1..Len(c.targetAngles) : c.targetAngles[k] = 30
        /\ c.useCorrectQuadrant
        /\ c.correctQuadrant = 1}

TestInit == InitWith(SessionConfigurations)

\* line 380: disabled={selectedAngle !== null}
Disabled == selectedAngle # Null

\* the Test component is mounted and shows the stimulus view with the canvas
\* reachable by the pointer (the fullscreen prompt is an overlay over the page)
CanvasShown ==
    /\ pc = "mounted"
    /\ route \in {"/test", "pushed"}
    /\ currentStimulusIndex >= 0
    /\ ~showFullscreenPrompt

\* lines 237-246, 257-266: the mount effects detect the device and size the canvas
Mount ==
    /\ pc = "render"
    /\ pc' = "mounted"
    /\ isMobile' \in BOOLEAN
    /\ canvasSize' \in CanvasSizes
    /\ UNCHANGED <<settings, stimulusIndex, targetAngle, options, correctCount, repairI,
                   chainIterations, stimuli, currentStimulusIndex, selectedAngle, startTime,
                   results, showFullscreenPrompt, fullscreenPending, testResults, route,
                   clock, siteVars, canvasVars>>

AnglesSortedInPlace(angles) == SortSeq(angles, LAMBDA a, b : a < b)

\* the angles array after the layout effect ran angles.map over it: map
\* builds a new array and leaves its receiver as it was
AnglesAfterMap(angles) == angles

\* the layout effect is handed stimuli[index].options itself, not a copy
StimuliAfterLayout(st, index) == [st EXCEPT ![index + 1].options = AnglesAfterMap(@)]

\* setCurrentStimulusIndex(index) followed by the render and its effects:
\* lines 249-254 (start timing, clear the selection) and the layout effect of
\* LineCanvas for the new options; rendering stimuli[index] of an index past
\* the end throws
ShowStimulus(index, now) ==
    IF index = currentStimulusIndex
    THEN UNCHANGED <<currentStimulusIndex, startTime, selectedAngle, lines, layoutCount, route,
                     clock, stimuli>>
    ELSE IF index >= Len(stimuli)
    THEN /\ currentStimulusIndex' = index
         /\ route' = "crashed"
         /\ UNCHANGED <<startTime, selectedAngle, lines, layoutCount, clock, stimuli>>
    ELSE /\ currentStimulusIndex' = index
         /\ clock' = now
         /\ startTime' = Some(now)
         /\ selectedAngle' = Null
         /\ lines' = LayoutLines(stimuli[index + 1].options, canvasSize, layoutCount + 1)
         /\ stimuli' = StimuliAfterLayout(stimuli, index)
         /\ layoutCount' = layoutCount + 1
         /\ UNCHANGED route

\* lines 319-325
handleStart ==
    /\ pc = "mounted" /\ route = "/test"
    /\ currentStimulusIndex = 0 - 1
    /\ ~showFullscreenPrompt
    /\ IF isMobile
       THEN /\ showFullscreenPrompt' = TRUE
            /\ UNCHANGED <<currentStimulusIndex, startTime, selectedAngle, lines, layoutCount, route,
                           clock, stimuli>>
       ELSE /\ \E now \in Times : ShowStimulus(0, now)
            /\ UNCHANGED showFullscreenPrompt
    /\ UNCHANGED <<genLocals, siteVars, results, canvasSize, isMobile, fullscreenPending, testResults,
                   hoveredLine>>

\* lines 331-335: up to the await
handleFullscreenPrompt ==
    /\ pc = "mounted" /\ route \in {"/test", "pushed"}
    /\ showFullscreenPrompt
    /\ isMobile => fullscreenPending < MaxPending
    /\ showFullscreenPrompt' = FALSE
    /\ IF isMobile
       THEN /\ fullscreenPending' = fullscreenPending + 1
            /\ UNCHANGED <<currentStimulusIndex, startTime, selectedAngle, lines, layoutCount, route,
                           clock, stimuli>>
       ELSE /\ \E now \in Times : ShowStimulus(0, now)
            /\ UNCHANGED fullscreenPending
    /\ UNCHANGED <<genLocals, siteVars, results, canvasSize, isMobile, testResults, hoveredLine>>

\* line 336: the rest of handleFullscreenPrompt, once toggleFullscreen settled
FullscreenSettled ==
    /\ pc = "mounted" /\ route \in {"/test", "pushed"}
    /\ fullscreenPending > 0
    /\ fullscreenPending' = fullscreenPending - 1
    /\ \E now \in Times : ShowStimulus(0, now)
    /\ UNCHANGED <<genLocals, siteVars, results, canvasSize, isMobile, showFullscreenPrompt, testResults,
                   hoveredLine>>

\* lines 343-346
handleSkipFullscreen ==
    /\ pc = "mounted" /\ route \in {"/test", "pushed"}
    /\ showFullscreenPrompt
    /\ showFullscreenPrompt' = FALSE
    /\ \E now \in Times : ShowStimulus(0, now)
    /\ UNCHANGED <<genLocals, siteVars, results, canvasSize, isMobile, fullscreenPending, testResults,
                   hoveredLine>>

\* JSON.stringify of the results: the records with their numbers
Stringify(rs) == rs

\* lines 288-313, with the render and the effects that follow
handleSelection(angle) ==
    IF startTime = Null
    THEN UNCHANGED vars
    ELSE \E now \in Times :
           /\ results' = Append(results, [stimulusIndex |-> currentStimulusIndex,
                                          selectedAngle |-> angle,
                                          time |-> now - startTime[1]])
           /\ IF currentStimulusIndex < Len(stimuli) - 1
              THEN /\ ShowStimulus(currentStimulusIndex + 1, now)
                   /\ UNCHANGED testResults
              ELSE /\ selectedAngle' = Some(angle)
                   /\ testResults' = Some(Stringify(results))
                   /\ route' = "pushed"
                   /\ clock' = now
                   /\ UNCHANGED <<currentStimulusIndex, startTime, lines, layoutCount, stimuli>>
           /\ UNCHANGED <<genLocals, siteVars, canvasSize, isMobile, showFullscreenPrompt,
                          fullscreenPending, hoveredLine>>

ClickNeverIgnored == FALSE

\* line 184: if (disabled || !onSelect || selectedAngle !== null) return
ClickIgnored == Disabled \/ selectedAngle # Null

MoveNeverIgnored == FALSE

\* line 210: if (disabled) return
MoveIgnored == Disabled

\* lines 182-205
handleCanvasClick(x, y) ==
    /\ CanvasShown
    /\ IF ClickIgnored
       THEN UNCHANGED vars
       ELSE LET closestLine == ClickedLine(lines, x, y, canvasSize)
            IN  IF closestLine = Null
                THEN UNCHANGED vars
                ELSE handleSelection(closestLine[1].angle)

\* lines 208-233
handleCanvasMouseMove(x, y) ==
    /\ CanvasShown
    /\ IF MoveIgnored
       THEN UNCHANGED vars
       ELSE /\ hoveredLine' = ClosestLine(lines, x, y, canvasSize)
            /\ UNCHANGED <<genVars, pageVars, lines, layoutCount>>

\* line 242: onMouseLeave
handleMouseLeave ==
    /\ CanvasShown
    /\ hoveredLine' = Null
    /\ UNCHANGED <<genVars, pageVars, lines, layoutCount>>

\* lines 258-262: the window is resized; the layout effect runs for the new size
handleResize ==
    /\ pc = "mounted" /\ route \in {"/test", "pushed"}
    /\ layoutCount < MaxLayouts
    /\ \E size \in CanvasSizes \ {canvasSize} :
         /\ canvasSize' = size
         /\ IF currentStimulusIndex # 0 - 1
            THEN /\ lines' = LayoutLines(stimuli[currentStimulusIndex + 1].options, size,
                                         layoutCount + 1)
                 /\ stimuli' = StimuliAfterLayout(stimuli, currentStimulusIndex)
                 /\ layoutCount' = layoutCount + 1
            ELSE UNCHANGED <<lines, layoutCount, stimuli>>
    /\ UNCHANGED <<genLocals, siteVars, currentStimulusIndex, selectedAngle, startTime, results, isMobile,
                   showFullscreenPrompt, fullscreenPending, testResults, route, clock,
                   hoveredLine>>

\* the navigation started by router.push("/results") completes: the Test
\* page is unmounted and its component state is gone; a continuation of
\* handleFullscreenPrompt that is still pending sets state of an unmounted
\* component, which does nothing
NavigationCommit ==
    /\ pc = "mounted" /\ route = "pushed"
    /\ route' = "/results"
    /\ currentStimulusIndex' = 0 - 1
    /\ selectedAngle' = Null
    /\ startTime' = Null
    /\ results' = <<>>
    /\ showFullscreenPrompt' = FALSE
    /\ fullscreenPending' = 0
    /\ lines' = <<>>
    /\ hoveredLine' = Null
    /\ UNCHANGED <<genVars, siteVars, canvasSize, isMobile, testResults, clock, layoutCount>>

----------------------------------------------------------------------------
(* The Results page (app/results/page.tsx) *)

\* JSON.parse of a stored list: the objects with the properties that were
\* stringified
Parse(text) == text

\* result.key of a parsed object: Null stands for undefined
Get(object, key) == IF key \in DOMAIN object THEN Some(object[key]) ELSE Null

\* the condition of `value ? a : b` for a boolean property that may be undefined
Truthy(value) == value # Null /\ value[1] = TRUE

\* lines 37-42: the load effect of the Results page
ResultsLoad ==
    /\ route = "/results"
    /\ loadedResults = Null
    /\ loadedResults' = IF testResults # Null THEN Some(Parse(testResults[1])) ELSE Some(<<>>)
    /\ UNCHANGED <<genVars, currentStimulusIndex, selectedAngle, startTime, results, canvasSize,
                   isMobile, showFullscreenPrompt, fullscreenPending, testResults, route, clock,
                   pointer, localStorage, localTargetAngles, legacyVars, canvasVars>>

\* lines 79-88: what the page shows for one result; Null is a paragraph that
\* is not rendered
ResultRow(result) ==
    [verdict |-> IF Truthy(Get(result, "correct")) THEN "Correct" ELSE "Incorrect",
     time |-> Get(result, "time"),
     targetAngle |-> Get(result, "targetAngle"),
     selectedAngle |-> Get(result, "selectedAngle")]

\* lines 79-88: results.map
ResultRows(rs) == [k \in 1..Len(rs) |-> ResultRow(rs[k])]

PointerEvent ==
    \E p \in PointerPositions(lines, canvasSize) :
        handleCanvasClick(p.x, p.y) \/ handleCanvasMouseMove(p.x, p.y)

----------------------------------------------------------------------------
(* LineCanvas: painting *)

\* the length the hit test gives a line, Math.min(size / 3, 150)
LineLengthOfHitTest(size) == Min(Px(size) \div 3, Px(150))

\* line 135: const lineLength = size / 8
lineLength(size) == RoundDiv(Px(size), 8)

\* lines 100-123: the segment stroked from (startX, startY)
drawLine(startX, startY, angle, color, lineWidth, length) ==
    [from |-> [x |-> startX, y |-> startY],
     to |-> [x |-> startX + RoundDiv(Cos(angle) * length, 10000),
             y |-> startY - RoundDiv(Sin(angle) * length, 10000)],
     color |-> color,
     lineWidth |-> lineWidth]

\* the targetAngle prop: the Test page passes the target of the displayed
\* stimulus (page.tsx line 376); the canvas on its own gets none
TargetAngleProp ==
    IF pc = "mounted" /\ currentStimulusIndex >= 0
    THEN Some(stimuli[currentStimulusIndex + 1].targetAngle)
    ELSE Null

\* lines 126-150: what the paint effect leaves on the cleared canvas
Painted ==
    IF TargetAngleProp # Null
    THEN <<drawLine(Px(canvasSize) \div 2, Px(canvasSize) \div 2, TargetAngleProp[1],
                    "black", 3, lineLength(canvasSize))>>
    ELSE [k \in 1..Len(lines) |->
            LET isSelected == selectedAngle # Null /\ lines[k].angle = selectedAngle[1]
                isHovered == hoveredLine # Null /\ lines[k].id = hoveredLine[1].id
            IN  drawLine(lines[k].position.x, lines[k].position.y, lines[k].angle,
                         IF isSelected THEN "blue"
                         ELSE IF isHovered /\ ~Disabled THEN "lightblue"
                         ELSE "black",
                         IF isSelected \/ (isHovered /\ ~Disabled) THEN 8 ELSE 6,
                         lineLength(canvasSize))]

----------------------------------------------------------------------------
(* LineCanvas on its own: a parent that hands it an angle list, a size and  *)
(* an onSelect callback, no targetAngle (options mode) and no selectedAngle *)

\* angles (half degrees) the angle lists are made of: 0, 30, 90, 135, 180,
\* 270 and 315 degrees
CanvasAngles == <<0, 60, 180, 270, 360, 540, 630>>

\* the angle lists handed to the canvas: 4, 8, 12 and 16 angles
CanvasAngleLists ==
    {[k \in 1..(4 * n) |-> CanvasAngles[((k - 1 + shift) % Len(CanvasAngles)) + 1]] :
        n \in 1..MaxAnglesPerQuadrant, shift \in 0..MaxShift}

\* the sizes handed to the canvas: the default, the cap of handleResize, and
\* a small window
SmallCanvasSizes == {60, 400, 650}

\* the line of the hit test example: anchored at (200, 200), angle 0
ExampleLines == <<[angle |-> 0, id |-> <<0, 1>>, quadrant |-> 0,
                   position |-> [x |-> Px(200), y |-> Px(200)]]>>

\* pointer coordinates followed on a canvas: a grid over the canvas, the
\* points one pixel outside each edge, the anchor of every line, and around
\* every fourth line the points 3 pixels beside its anchor and 30 pixels
\* along it
CanvasPointerPositions(ls, size) ==
    LET grid == {0 - Px(1), 0, Px(size) \div 2, Px(size) + Px(1)}
        pointed == {k \in 1..Len(ls) : k % 4 = 1}
    IN  {[x |-> gx, y |-> gy] : gx \in grid, gy \in grid}
        \cup {[x |-> ls[k].position.x, y |-> ls[k].position.y] : k \in 1..Len(ls)}
        \cup {[x |-> ls[k].position.x + dx, y |-> ls[k].position.y + dy] :
                 k \in pointed, dx \in {0 - Px(3), 0, Px(3)}, dy \in {0 - Px(3), 0}}
        \cup {[x |-> ls[k].position.x + RoundDiv(Cos(ls[k].angle) * Px(30), 10000),
               y |-> ls[k].position.y - RoundDiv(Sin(ls[k].angle) * Px(30), 10000)] :
                 k \in pointed}

CanvasInit == InitWith({c \in SessionConfigurations : c.stimuliCount = 0})

\* the canvas is mounted: its layout effect (lines 40-97) has run
CanvasMount ==
    /\ pc = "generate" /\ route = "/test"
    /\ pc' = "canvas"
    /\ \E size \in SmallCanvasSizes :
         /\ canvasSize' = size
         /\ \/ \E angles \in CanvasAngleLists : lines' = LayoutLines(angles, size, 1)
            \/ size = 400 /\ lines' = ExampleLines
    /\ layoutCount' = 1
    /\ UNCHANGED <<settings, stimulusIndex, targetAngle, options, correctCount, repairI,
                   chainIterations, stimuli, currentStimulusIndex, selectedAngle, startTime,
                   results, isMobile, showFullscreenPrompt, fullscreenPending, testResults,
                   route, clock, siteVars, hoveredLine>>

\* lines 208-233, a mouse move at (x, y)
CanvasMouseMove(x, y) ==
    /\ pc = "canvas"
    /\ pointer' = Some([x |-> x, y |-> y, event |-> "move", onSelect |-> Null])
    /\ hoveredLine' = IF MoveIgnored THEN hoveredLine
                      ELSE ClosestLine(lines, x, y, canvasSize)
    /\ UNCHANGED <<genVars, currentStimulusIndex, selectedAngle, startTime, results, canvasSize,
                   isMobile, showFullscreenPrompt, fullscreenPending, testResults, route, clock,
                   loadedResults, localStorage, localTargetAngles,
                   legacyVars, lines, layoutCount>>

\* lines 182-205, a click at (x, y); the event is kept with the argument of
\* the onSelect call it made, Null when it made none
CanvasClick(x, y) ==
    /\ pc = "canvas"
    /\ pointer' = Some([x |-> x, y |-> y, event |-> "click",
                        onSelect |-> IF ClickIgnored \/ ClickedLine(lines, x, y, canvasSize) = Null
                                     THEN Null
                                     ELSE Some(ClickedLine(lines, x, y, canvasSize)[1].angle)])
    /\ UNCHANGED <<genVars, currentStimulusIndex, selectedAngle, startTime, results, canvasSize,
                   isMobile, showFullscreenPrompt, fullscreenPending, testResults, route, clock,
                   loadedResults, localStorage, localTargetAngles,
                   legacyVars, canvasVars>>

\* line 242: onMouseLeave
CanvasMouseLeave ==
    /\ pc = "canvas"
    /\ pointer # Null
    /\ pointer' = Null
    /\ hoveredLine' = Null
    /\ UNCHANGED <<genVars, currentStimulusIndex, selectedAngle, startTime, results, canvasSize,
                   isMobile, showFullscreenPrompt, fullscreenPending, testResults, route, clock,
                   loadedResults, localStorage, localTargetAngles,
                   legacyVars, lines, layoutCount>>

CanvasPointerEvent ==
    \E p \in CanvasPointerPositions(lines, canvasSize) :
        CanvasClick(p.x, p.y) \/ CanvasMouseMove(p.x, p.y)

CanvasNext ==
    \/ CanvasMount
    \/ CanvasPointerEvent
    \/ CanvasMouseLeave

CanvasSpec == CanvasInit /\ [][CanvasNext]_vars

----------------------------------------------------------------------------
(* generateStimuli, legacy quadrant-based variant (part_003, an earlier     *)
(* app/test/page.tsx); angles in half degrees as everywhere                  *)

\* line 37: const maxAttempts = 100
maxAttempts == 100

\* outcomes of Math.floor(Math.random() * 18) explored (line 21)
LegacyTargetUnits == {4, 9}
\* outcomes of Math.floor(Math.random() * 90) explored (line 40)
LegacyDraws == {0, 14, 40, 68, 89}
\* outcomes of Math.floor(Math.random() * 360) explored (line 75)
LegacyRefillDraws == {0, 52, 200, 359}

\* the configurations the legacy generator reads: it ignores degreeVariance
\* and targetAngles.  The configurations are those of one and of four angles
\* per quadrant: each state of a fill loop is multiplied by the attempts
\* counter, and two or three angles per quadrant leave tens of thousands of
\* distinct option lists per configuration.
LegacyConfigurations ==
    {c \in [stimuliCount : {1},
            anglesPerQuadrant : {1, MaxAnglesPerQuadrant},
            correctQuadrant : 1..4,
            useCorrectQuadrant : BOOLEAN,
            degreeVariance : {HalfDeg(10)},
            targetAngles : {<<>>}] :
        /\ (~c.useCorrectQuadrant) => c.correctQuadrant = 1
        /\ (c.anglesPerQuadrant > 2 /\ c.useCorrectQuadrant) => c.correctQuadrant = 3}

\* lines 41, 76: Math.round(newAngle / 10) * 10, newAngle >= 0 in degrees
RoundToTen(newAngle) == ((newAngle + 5) \div 10) * 10

\* array.includes(x)
Includes(seq, x) == \E k \in 1..Len(seq) : seq[k] = x

\* lines 44-46, 78-80: the condition under which the do-while draws again
Rejects(angles, newAngle, target) ==
    \/ Includes(angles, newAngle)
    \/ newAngle = target
    \/ \E k \in 1..Len(angles) : Abs(angles[k] - newAngle) < HalfDeg(20)

\* lines 40-41: the angle drawn in a quadrant
QuadrantAngle(draw, quadrant) == HalfDeg(RoundToTen(draw + quadrant * 90))

\* lines 25-31: the quadrant's list before it is filled
QuadrantStart(s, quadrant, target) ==
    IF s.useCorrectQuadrant /\ quadrant = s.correctQuadrant - 1 THEN <<target>> ELSE <<>>

\* line 69: [...new Set(options)], the first occurrences in order
RECURSIVE Dedupe(_)
Dedupe(seq) ==
    IF seq = <<>> THEN <<>>
    ELSE LET front == Dedupe(SubSeq(seq, 1, Len(seq) - 1))
         IN  IF Includes(front, seq[Len(seq)]) THEN front ELSE Append(front, seq[Len(seq)])

\* the variables the legacy generator leaves alone
outsideLegacy ==
    <<settings, correctCount, repairI, chainIterations, currentStimulusIndex, selectedAngle,
      startTime, results, canvasSize, isMobile, showFullscreenPrompt, fullscreenPending,
      testResults, route, clock, loadedResults, pointer, localStorage, localTargetAngles,
      canvasVars>>

\* lines 20-31: the Array.from callback starts: target, first quadrant
LegacyStartStimulus ==
    /\ pc = "generate"
    /\ stimulusIndex < ArrayFromLength(settings.stimuliCount)
    /\ \E unit \in LegacyTargetUnits :
         /\ targetAngle' = HalfDeg(unit * 10)
         /\ quadrantAngles' = QuadrantStart(settings, 0, HalfDeg(unit * 10))
    /\ quadrantIndex' = 0
    /\ options' = <<>>
    /\ attempts' = 0
    /\ pc' = "fill"
    /\ UNCHANGED <<stimulusIndex, stimuli, outsideLegacy>>

\* line 34: the while condition holds, a do-while loop starts (lines 35-37)
LegacyFillMore ==
    /\ pc = "fill"
    /\ Len(quadrantAngles) < settings.anglesPerQuadrant
    /\ attempts' = 0
    /\ pc' = "attempt"
    /\ UNCHANGED <<stimulusIndex, targetAngle, options, stimuli, quadrantIndex, quadrantAngles,
                   outsideLegacy>>

\* lines 39-52: one pass of the do-while loop; when the loop ends the angle
\* is pushed only if attempts < maxAttempts, and attempts goes out of scope
LegacyAttempt ==
    /\ pc = "attempt"
    /\ \E draw \in LegacyDraws :
         LET newAngle == QuadrantAngle(draw, quadrantIndex)
             again == Rejects(quadrantAngles, newAngle, targetAngle)
                        /\ attempts + 1 < maxAttempts
         IN  /\ attempts' = IF again THEN attempts + 1 ELSE 0
             /\ pc' = IF again THEN "attempt" ELSE "fill"
             /\ quadrantAngles' = IF ~again /\ attempts + 1 < maxAttempts
                                  THEN Append(quadrantAngles, newAngle)
                                  ELSE quadrantAngles
    /\ UNCHANGED <<stimulusIndex, targetAngle, options, stimuli, quadrantIndex, outsideLegacy>>

\* lines 34, 55: the quadrant is full; the next quadrant starts
LegacyQuadrantDone ==
    /\ pc = "fill"
    /\ ~(Len(quadrantAngles) < settings.anglesPerQuadrant)
    /\ options' = options \o quadrantAngles
    /\ quadrantIndex' = quadrantIndex + 1
    /\ quadrantAngles' = IF quadrantIndex + 1 < 4
                         THEN QuadrantStart(settings, quadrantIndex + 1, targetAngle)
                         ELSE <<>>
    /\ attempts' = 0
    /\ pc' = IF quadrantIndex + 1 < 4 THEN "fill" ELSE "flat"
    /\ UNCHANGED <<stimulusIndex, targetAngle, stimuli, outsideLegacy>>

\* lines 59-69: quadrants.flat(), the target replaces a random option when
\* absent, duplicates are removed
LegacyFlat ==
    /\ pc = "flat"
    /\ \E randomIndex \in 1..Len(options) :
         options' = Dedupe(IF Includes(options, targetAngle)
                           THEN options
                           ELSE [options EXCEPT ![randomIndex] = targetAngle])
    /\ pc' = "refill"
    /\ UNCHANGED <<stimulusIndex, targetAngle, stimuli, legacyVars, outsideLegacy>>

\* lines 72-83: one draw of the refill loop
LegacyRefill ==
    /\ pc = "refill"
    /\ Len(options) < settings.anglesPerQuadrant * 4
    /\ \E draw \in LegacyRefillDraws :
         LET newAngle == HalfDeg(RoundToTen(draw))
         IN  options' = IF Rejects(options, newAngle, targetAngle)
                        THEN options
                        ELSE Append(options, newAngle)
    /\ UNCHANGED <<pc, stimulusIndex, targetAngle, stimuli, legacyVars, outsideLegacy>>

\* line 85: the callback returns the stimulus
LegacyEmit ==
    /\ pc = "refill"
    /\ ~(Len(options) < settings.anglesPerQuadrant * 4)
    /\ stimuli' = Append(stimuli, [targetAngle |-> targetAngle, options |-> options])
    /\ stimulusIndex' = stimulusIndex + 1
    /\ pc' = "generate"
    /\ UNCHANGED <<targetAngle, options, legacyVars, outsideLegacy>>

\* Array.from returns
LegacyDone ==
    /\ pc = "generate"
    /\ ~(stimulusIndex < ArrayFromLength(settings.stimuliCount))
    /\ pc' = "render"
    /\ UNCHANGED <<stimulusIndex, targetAngle, options, stimuli, legacyVars, outsideLegacy>>

LegacyGenerateStimuli ==
    \/ LegacyStartStimulus
    \/ LegacyFillMore
    \/ LegacyAttempt
    \/ LegacyQuadrantDone
    \/ LegacyFlat
    \/ LegacyRefill
    \/ LegacyEmit
    \/ LegacyDone

LegacySpec == InitWith(LegacyConfigurations) /\ [][LegacyGenerateStimuli]_vars

----------------------------------------------------------------------------
(* Specifications *)


\* the generator alone, over every configuration
Next == generateStimuli

Spec == Init /\ [][Next]_vars

\* the generator run to completion: generateStimuli is synchronous code, which
\* keeps executing until it returns.  The configurations are those of at most
\* two angles per quadrant.
TerminationConfigurations == {c \in Configurations : c.anglesPerQuadrant <= 2}

FairSpec == InitWith(TerminationConfigurations) /\ [][Next]_vars /\ WF_vars(Next)

\* the example scenario; the target is placed in the first quadrant, which
\* leaves the fewest distinct lists to carry from one stimulus to the next
ExampleConfiguration ==
    [stimuliCount |-> 3,
     anglesPerQuadrant |-> 1,
     correctQuadrant |-> 1,
     useCorrectQuadrant |-> TRUE,
     degreeVariance |-> HalfDeg(10),
     targetAngles |-> <<30, 60, 120>>]

\* the generator on the example scenario, every random outcome followed
ExampleSpec == InitWith({ExampleConfiguration}) /\ [][Next]_vars

\* a session of the Test page: generation, mount, then the events
TestNext ==
    \/ generateStimuli
    \/ Mount
    \/ handleStart
    \/ handleFullscreenPrompt
    \/ FullscreenSettled
    \/ handleSkipFullscreen
    \/ PointerEvent
    \/ handleMouseLeave
    \/ handleResize
    \/ NavigationCommit
    \/ ResultsLoad

TestSpec == TestInit /\ [][TestNext]_vars

\* a session of start, click and pointer-move events only
ClickNext ==
    \/ generateStimuli
    \/ Mount
    \/ handleStart
    \/ PointerEvent
    \/ NavigationCommit

ClickSpec == TestInit /\ [][ClickNext]_vars

\* sessions of one stimulus with the target placed in each of the four
\* quadrants, one and two angles per quadrant
PlacementConfigurations ==
    {c \in Configurations :
        /\ c.stimuliCount = 1
        /\ c.anglesPerQuadrant <= 2
        /\ c.degreeVariance = HalfDeg(50)
        /\ c.targetAngles = <<30>>
        /\ c.useCorrectQuadrant}

PlacementSpec == InitWith(PlacementConfigurations) /\ [][ClickNext]_vars

\* the settings page and page reloads, from the default settings
SettingsInit == InitWith({defaultSettings})

SettingsNext ==
    \/ OpenSettings
    \/ SettingsChange
    \/ \E index \in 0..(MaxStoredStimuli - 1), value \in TypedAngles :
          handleTargetAngleChange(index, value)
    \/ handleSubmit
    \/ ProviderMount

SettingsSpec == SettingsInit /\ [][SettingsNext]_vars

----------------------------------------------------------------------------
(* Properties of the generator *)

Generated == pc \in {"render", "mounted"}

InBand(s, index) ==
    /\ index >= (s.correctQuadrant - 1) * s.anglesPerQuadrant
    /\ index < s.correctQuadrant * s.anglesPerQuadrant

\* C1: every returned stimulus has exactly one element of options equal to
\* its targetAngle.
C1_ExactlyOneTarget ==
    \A k \in 1..Len(stimuli) : CountOf(stimuli[k].options, stimuli[k].targetAngle) = 1

\* C2: every option of every returned stimulus has the angle category of the
\* stimulus's targetAngle.
C2_OptionsShareCategory ==
    \A k \in 1..Len(stimuli) : \A j \in 1..Len(stimuli[k].options) :
        getAngleCategory(stimuli[k].options[j]) = getAngleCategory(stimuli[k].targetAngle)

\* C3: with useCorrectQuadrant, options.indexOf(targetAngle) of every returned
\* stimulus lies in the band of correctQuadrant.
C3_TargetIndexInBand ==
    settings.useCorrectQuadrant =>
        \A k \in 1..Len(stimuli) :
            InBand(settings, IndexOf(stimuli[k].options, stimuli[k].targetAngle))

\* C4: every returned stimulus has anglesPerQuadrant * 4 options, and the
\* options list has that length from the end of chain growth on: through the
\* uniqueness repair, the shuffle and the quadrant swap.
C4_OptionsLength ==
    /\ \A k \in 1..Len(stimuli) : Len(stimuli[k].options) = settings.anglesPerQuadrant * 4
    /\ pc \in {"repair", "shuffle", "quadrant"} => Len(options) = settings.anglesPerQuadrant * 4

\* a stimulus of 16 options whose chain growth left several copies of the
\* target, so that the repair loop ran, and whose target was swapped into
\* the last quadrant
C4_Witness ==
    /\ Generated
    /\ Len(stimuli) = 1
    /\ settings.anglesPerQuadrant = 4
    /\ settings.useCorrectQuadrant /\ settings.correctQuadrant = 4
    /\ correctCount > 1 /\ repairI = correctCount - 1
    /\ Len(stimuli[1].options) = 16

\* C5: generateStimuli returns stimuliCount stimuli when stimuliCount >= 1
\* and the empty sequence when stimuliCount <= 0.
C5_StimuliCount ==
    Generated =>
        Len(stimuli) = (IF settings.stimuliCount >= 1 THEN settings.stimuliCount ELSE 0)

C5_Witness ==
    /\ Generated
    /\ settings.stimuliCount = 2
    /\ Len(stimuli) = 2

\* the loop over the stimuli, the chain-growth loop of each stimulus and the
\* repair loop have run at most stimuliCount, anglesPerQuadrant * 4 - 1 and
\* correctCount - 1 <= anglesPerQuadrant * 4 - 1 iterations
BoundedLoops ==
    /\ stimulusIndex <= ArrayFromLength(settings.stimuliCount)
    /\ chainIterations <= totalAnglesNeeded(settings) - 1
    /\ correctCount <= totalAnglesNeeded(settings)
    /\ repairI <= Max(correctCount - 1, 0)
    /\ pc \in {"chain", "repair", "shuffle", "quadrant"} =>
          stimulusIndex < ArrayFromLength(settings.stimuliCount)

\* C7: generateStimuli terminates whatever the random outcomes: the
\* chain-growth loop of each stimulus and the uniqueness repair run a bounded
\* number of iterations, and the generator eventually returns.
C7_Terminates == []BoundedLoops /\ <>Generated

\* the generator returned two stimuli, the second after a repair loop
C7_Witness ==
    /\ Generated
    /\ Len(stimuli) = 2
    /\ correctCount > 1 /\ repairI = correctCount - 1

----------------------------------------------------------------------------
(* Properties of the Test page and LineCanvas *)

\* C8: once selectedAngle is non-null (so disabled is true), a click or a
\* pointer move on the canvas changes nothing: onSelect is not invoked (no
\* record, no selection, no navigation) and the hover state keeps its value,
\* until the page resets selectedAngle to null.
C8_LockedCanvasIgnoresPointer ==
    [][(selectedAngle # Null /\ PointerEvent) => UNCHANGED vars]_vars

\* the canvas is shown with a selection made, a line hovered, and lines under
\* the pointer positions
C8_Witness ==
    /\ CanvasShown
    /\ selectedAngle # Null
    /\ hoveredLine # Null
    /\ \E p \in PointerPositions(lines, canvasSize) :
          /\ ClosestLine(lines, p.x, p.y, canvasSize) # Null
          /\ ClosestLine(lines, p.x, p.y, canvasSize) # hoveredLine

\* the stimuli answered so far, from the page's state
Answered ==
    IF currentStimulusIndex < 0 THEN 0
    ELSE currentStimulusIndex + (IF selectedAngle # Null THEN 1 ELSE 0)

\* C9: after any sequence of start, click and pointer-move events the results
\* hold exactly one record for every answered stimulus and none for the
\* others, in stimulus order: the k-th record is that of stimulus k - 1.
C9_OneRecordPerStimulus ==
    pc = "mounted" /\ route \in {"/test", "pushed"} =>
        /\ Len(results) = Answered
        /\ \A k \in 1..Len(results) : results[k].stimulusIndex = k - 1

\* the last of two stimuli has been answered and the canvas is still shown
C9_Witness ==
    /\ CanvasShown
    /\ route = "pushed"
    /\ Len(stimuli) = 2
    /\ Len(results) = 2
    /\ selectedAngle # Null

\* C10: once the last stimulus is answered and the page navigates, the list
\* stored under "testResults" holds one record for every stimulus of the
\* session, the record of the last selection included.
C10_StoredResultsComplete ==
    route \in {"pushed", "/results"} =>
        /\ testResults # Null
        /\ Len(testResults[1]) = Len(stimuli)
        /\ \E k \in 1..Len(testResults[1]) :
              testResults[1][k].stimulusIndex = Len(stimuli) - 1

----------------------------------------------------------------------------
(* Properties of the Results page *)

\* C11: for every record the test page stored and the results page loaded,
\* the page shows Correct exactly when the selected angle is the target angle
\* of the record's stimulus, and shows that target angle.
C11_VerdictMatchesSelection ==
    loadedResults # Null =>
        \A k \in 1..Len(loadedResults[1]) :
            LET record == loadedResults[1][k]
                row == ResultRows(loadedResults[1])[k]
                target == stimuli[record.stimulusIndex + 1].targetAngle
            IN  /\ (row.verdict = "Correct") <=> (record.selectedAngle = target)
                /\ row.targetAngle = Some(target)

\* C12: once generated, the stimulus sequence is left as it is by every
\* event of the session (start, fullscreen prompt, selection, resize, hover,
\* navigation): its length, target angles and options lists do not change.
C12_StimuliImmutable == [][Generated => stimuli' = stimuli]_vars

\* a mobile session past the fullscreen prompt and a layout after a resize or
\* a second stimulus, with a recorded selection and a hovered line
C12_Witness ==
    /\ CanvasShown
    /\ isMobile
    /\ Len(stimuli) = 2
    /\ Len(results) >= 1
    /\ layoutCount >= 2
    /\ canvasSize = 650
    /\ hoveredLine # Null
    /\ stimuli[currentStimulusIndex + 1].options # AnglesSortedInPlace(stimuli[currentStimulusIndex + 1].options)

----------------------------------------------------------------------------
(* Properties of LineCanvas on its own *)

\* the last pointer event was at (x, y) pixels
PointerAt(x, y) == pointer # Null /\ pointer[1].x = Px(x) /\ pointer[1].y = Px(y)

\* what the last pointer event resolved to: for a move the hovered line's
\* angle, for a click the argument of onSelect; Null when nothing
ResolvedAngle ==
    IF pointer[1].event = "move"
    THEN (IF hoveredLine = Null THEN Null ELSE Some(hoveredLine[1].angle))
    ELSE pointer[1].onSelect

\* C13: hit test example: canvas size 400, one line anchored at (200, 200)
\* with angle 0: a pointer at (200, 200) resolves to that line, by hover and
\* by click, and a pointer at (0, 0) resolves to no line.
C13_HitTestExample ==
    (pc = "canvas" /\ canvasSize = 400 /\ lines = ExampleLines) =>
        /\ PointerAt(200, 200) => ResolvedAngle = Some(ExampleLines[1].angle)
        /\ (PointerAt(200, 200) /\ pointer[1].event = "move") =>
               hoveredLine = Some(ExampleLines[1])
        /\ PointerAt(0, 0) => ResolvedAngle = Null

\* the example line was hovered and then clicked at its anchor
C13_Witness ==
    /\ pc = "canvas" /\ canvasSize = 400 /\ lines = ExampleLines
    /\ PointerAt(200, 200)
    /\ pointer[1].event = "click"
    /\ pointer[1].onSelect = Some(0)
    /\ hoveredLine = Some(ExampleLines[1])

\* the lines that are candidates for the last pointer event: perpendicular
\* distance at most 5 and inside the segment's bounding box grown by 10
Candidates ==
    {k \in 1..Len(lines) : isPointNearLine(pointer[1].x, pointer[1].y, lines[k], canvasSize)}

\* candidate k has the least anchor distance to the last pointer event
NearestCandidate(k) ==
    /\ k \in Candidates
    /\ \A j \in Candidates :
          AnchorDistance2(lines[k], pointer[1].x, pointer[1].y)
             <= AnchorDistance2(lines[j], pointer[1].x, pointer[1].y)

\* C14: when some line is a candidate for a pointer event, the line resolved
\* by hover and by click is a candidate of the least anchor distance to the
\* pointer; when no line is a candidate, nothing is resolved.
C14_NearestAnchorWins ==
    (pc = "canvas" /\ pointer # Null) =>
        IF Candidates = {}
        THEN ResolvedAngle = Null
        ELSE /\ pointer[1].event = "move" =>
                   \E k \in Candidates : NearestCandidate(k) /\ hoveredLine = Some(lines[k])
             /\ pointer[1].event = "click" =>
                   \E k \in Candidates :
                       NearestCandidate(k) /\ pointer[1].onSelect = Some(lines[k].angle)

\* a click with two candidates, the first of them not the nearest
C14_Witness ==
    /\ pc = "canvas" /\ pointer # Null
    /\ pointer[1].event = "click"
    /\ Cardinality(Candidates) >= 2
    /\ \E k \in Candidates : NearestCandidate(k) /\ \E j \in Candidates : j < k
    /\ pointer[1].onSelect # Null
    /\ hoveredLine # Null

\* the last pointer event was outside the canvas
PointerOutOfBounds ==
    /\ pointer # Null
    /\ \/ pointer[1].x < 0
       \/ pointer[1].y < 0
       \/ pointer[1].x > Px(canvasSize)
       \/ pointer[1].y > Px(canvasSize)

\* C15: for every canvas size and every laid out line set, a pointer event
\* outside the canvas (x < 0, y < 0, x > size or y > size) resolves to no
\* line: a move sets no hover and a click does not invoke onSelect.
C15_OutOfBoundsResolvesNothing ==
    (pc = "canvas" /\ lines # ExampleLines /\ PointerOutOfBounds) =>
        /\ ResolvedAngle = Null
        /\ pointer[1].event = "move" => hoveredLine = Null

\* the canvas holds a line set produced by the layout effect
LaidOut == pc = "canvas" /\ lines # ExampleLines /\ Len(lines) % 4 = 0

\* the anchor lies in the given quadrant, at least 15% of the canvas size
\* away from each of the quadrant's four edges
InsideInset(position, quadrant, size) ==
    LET left == (quadrant % 2) * Px(size)
        top == (quadrant \div 2) * Px(size)
    IN  /\ 100 * (2 * position.x - left) >= 2 * 15 * Px(size)
        /\ 100 * (left + Px(size) - 2 * position.x) >= 2 * 15 * Px(size)
        /\ 100 * (2 * position.y - top) >= 2 * 15 * Px(size)
        /\ 100 * (top + Px(size) - 2 * position.y) >= 2 * 15 * Px(size)

\* C16: for 1 to 4 angles per quadrant and every canvas size, the line at
\* index k (from 0) is assigned quadrant floor(k / anglesPerQuadrant), which
\* is one of 0..3, and its anchor lies inside that quadrant's inset
\* rectangle, at least 15% of the canvas size from each edge of the quadrant.
C16_AnchorsInsideQuadrantInset ==
    LaidOut =>
        \A k \in 1..Len(lines) :
            /\ lines[k].quadrant = (k - 1) \div (Len(lines) \div 4)
            /\ lines[k].quadrant \in 0..3
            /\ InsideInset(lines[k].position, lines[k].quadrant, canvasSize)

C16_Witness ==
    /\ LaidOut
    /\ Len(lines) = 4 * MaxAnglesPerQuadrant
    /\ canvasSize = 650
    /\ lines[16].quadrant = 3
    /\ lines[16].position = [x |-> 4225, y |-> 5525]
    /\ lines[6].quadrant = 1
    /\ InsideInset(lines[6].position, 1, canvasSize)

\* the point lies strictly inside the quadrant: on no quadrant boundary and
\* on no canvas edge
StrictlyInsideQuadrant(point, quadrant, size) ==
    LET left == (quadrant % 2) * Px(size)
        top == (quadrant \div 2) * Px(size)
    IN  /\ 2 * point.x > left /\ 2 * point.x < left + Px(size)
        /\ 2 * point.y > top /\ 2 * point.y < top + Px(size)

\* C17: in options mode every painted segment (from the anchor of its line,
\* length size / 8, whatever the angle) lies strictly inside the quadrant of
\* its line: it touches neither a quadrant boundary nor the canvas edge.
C17_SegmentsStayInsideQuadrant ==
    (LaidOut /\ TargetAngleProp = Null) =>
        /\ Len(Painted) = Len(lines)
        /\ \A k \in 1..Len(lines) :
              /\ Painted[k].from = lines[k].position
              /\ StrictlyInsideQuadrant(Painted[k].from, lines[k].quadrant, canvasSize)
              /\ StrictlyInsideQuadrant(Painted[k].to, lines[k].quadrant, canvasSize)

C17_Witness ==
    /\ LaidOut /\ TargetAngleProp = Null
    /\ canvasSize = 400
    /\ Len(lines) = 4 * MaxAnglesPerQuadrant
    /\ lines[1].angle = 60
    /\ Painted[1].from = [x |-> 600, y |-> 600]
    /\ Painted[1].to = [x |-> 1033, y |-> 350]
    /\ \E k \in 1..Len(lines) : lines[k].angle = 360 /\ lines[k].quadrant = 2

\* a click on the anchor of line k selects line k
Selectable(k) ==
    /\ ~ClickIgnored
    /\ ClosestLine(lines, lines[k].position.x, lines[k].position.y, canvasSize)
         = Some(lines[k])

\* line k is on the canvas: some painted segment starts at its anchor and
\* runs at its angle
Drawn(k) ==
    \E j \in 1..Len(Painted) :
        /\ Painted[j].from = lines[k].position
        /\ Painted[j].to = drawLine(lines[k].position.x, lines[k].position.y,
                                    lines[k].angle, "black", 6,
                                    lineLength(canvasSize)).to

\* C18: while the Test page displays a stimulus and selection is enabled,
\* every option line a click can select is painted on the canvas: no line is
\* selectable by the hit test but not drawn.
C18_SelectableLinesAreDrawn ==
    (CanvasShown /\ ~Disabled) =>
        \A k \in 1..Len(lines) : Selectable(k) => Drawn(k)

\* the counts and ranges of the example scenario
ExampleShape ==
    /\ Len(stimuli) = 3
    /\ \A k \in 1..3 : Len(stimuli[k].options) = 4
    /\ \A j \in 1..4 : stimuli[1].options[j] < HalfDeg(90)
    /\ \A j \in 1..4 : stimuli[3].options[j] > HalfDeg(90)
    /\ \E j \in 1..4 : stimuli[1].options[j] = HalfDeg(30)
    /\ \E j \in 1..4 : stimuli[3].options[j] = HalfDeg(120)

\* C19: with stimuliCount 3, anglesPerQuadrant 1, degreeVariance 10 and
\* targetAngles [30, 60, 120], generateStimuli returns 3 stimuli of 4 options
\* each; the options of stimulus 0 are all below 90 and one of them, and only
\* one, is 30; the options of stimulus 2 are all above 90 and one of them,
\* and only one, is 120; whatever the random choices.
C19_ExampleScenario ==
    (Generated /\ settings = ExampleConfiguration) =>
        /\ ExampleShape
        /\ CountOf(stimuli[1].options, HalfDeg(30)) = 1
        /\ CountOf(stimuli[3].options, HalfDeg(120)) = 1

\* localStorage holds the text of the provider's settings
Persisted == localStorage = Some(StringifySettings(settings))

\* C20: settings persist across a page refresh: when updateSettings has
\* produced the settings and written them to localStorage, then after the
\* SettingsProvider has mounted again and its load and sync effects have run,
\* the provider's settings are the same and localStorage still holds them.
C20_SettingsSurviveRefresh ==
    [][(Persisted /\ ProviderMount) =>
          (settings' = settings /\ localStorage' = localStorage)]_vars

\* C21: in chain growth every appended decoy differs from the option it was
\* derived from by at most degreeVariance, after normalization and clamping,
\* for every target angle from 1 to 179 degrees and every random outcome.
C21_DecoyWithinVarianceOfBase ==
    [][(/\ pc = "chain"
        /\ ChainLoopRuns(options, settings)
        /\ targetAngle >= HalfDeg(1) /\ targetAngle <= HalfDeg(179)) =>
          \A b \in 1..Len(options), direction \in {1, 0 - 1} :
             options' = Push(options,
                          ChainAngle(options[b], direction, settings.degreeVariance,
                                     getAngleCategory(targetAngle))) =>
                Abs(options'[Len(options')] - options[b]) <= settings.degreeVariance]_vars

----------------------------------------------------------------------------
(* Properties of the legacy generator *)

\* some outcome of Math.random() ends the do-while loop of the quadrant fill
\* with an angle to push
FillCanEnd ==
    pc = "attempt" =>
        \E draw \in 0..89 :
            ~Rejects(quadrantAngles, QuadrantAngle(draw, quadrantIndex), targetAngle)

\* some outcome of Math.random() ends the do-while loop of the refill
RefillCanEnd ==
    (pc = "refill" /\ Len(options) < settings.anglesPerQuadrant * 4) =>
        \E draw \in 0..359 : ~Rejects(options, HalfDeg(RoundToTen(draw)), targetAngle)

\* the attempt that exhausts the cap still adds an angle to the quadrant
CapExhaustedPushes ==
    (pc = "attempt" /\ attempts + 1 = maxAttempts) =>
        Len(quadrantAngles') = Len(quadrantAngles) + 1

\* C22: the legacy quadrant-based generateStimuli terminates for every
\* configuration and every sequence of random outcomes: the generator never
\* is in a retry loop that no random outcome can end, and when the 100
\* attempts for a new angle are exhausted it accepts an angle instead of
\* retrying; the same holds for the refill loop after duplicate removal.
C22_LegacyLoopsEnd ==
    [][FillCanEnd /\ RefillCanEnd /\ CapExhaustedPushes]_vars

\* C23: in the legacy generator, when useCorrectQuadrant is true the index of
\* targetAngle in the options of every returned stimulus lies in the band
\* [(correctQuadrant - 1) * anglesPerQuadrant, correctQuadrant *
\* anglesPerQuadrant), also after duplicate removal and refill.
C23_LegacyTargetIndexInBand ==
    (Generated /\ settings.useCorrectQuadrant) =>
        \A k \in 1..Len(stimuli) :
            InBand(settings, IndexOf(stimuli[k].options, stimuli[k].targetAngle))

----------------------------------------------------------------------------
(* Properties of the settings page *)

\* the stored configuration has one target angle per stimulus
OneTargetPerStimulus(s) == Len(s.targetAngles) = s.stimuliCount

\* the angles of the slots that remain are those stored before
RemainingSlotsKept ==
    \A i \in 1..Min(Len(settings.targetAngles), Len(settings'.targetAngles)) :
        settings'.targetAngles[i] = settings.targetAngles[i]

\* C24: from the default settings, after any sequence of settings page
\* operations (changing the number of stimuli, editing target angles,
\* saving) the stored configuration has exactly one target angle per
\* stimulus, and a change of stimuliCount keeps the stored angles of the
\* slots that remain.
C24_OneTargetAnglePerStimulus ==
    [][/\ OneTargetPerStimulus(settings)
       /\ OneTargetPerStimulus(settings')
       /\ (\E n \in 0..MaxStoredStimuli : handleStimuliCountChange(n)) => RemainingSlotsKept]_vars

\* C25: for every text entered in the degree variance field, after
\* handleDegreeVarianceChange the stored degreeVariance is a multiple of 2.5
\* within [7.5, 50] (5 half degrees within [15, 100]); the legacy page
\* stores a multiple of 10 within [10, 50]
C25_StoredVarianceOnTheGrid ==
    [][\A value \in VarianceTexts :
          /\ handleDegreeVarianceChange(value) =>
                /\ settings'.degreeVariance \in 15..HalfDeg(50)
                /\ settings'.degreeVariance % 5 = 0
          /\ LegacyDegreeVariance(value) \in HalfDeg(10)..HalfDeg(50)
          /\ LegacyDegreeVariance(value) % HalfDeg(10) = 0]_vars

\* C26: for every value entered in the settings page the stored
\* anglesPerQuadrant is an integer in [1, 4]
C26_AnglesPerQuadrantInRange == settings.anglesPerQuadrant \in 1..4

----------------------------------------------------------------------------
(* Properties of hover and click together *)

\* the angle of a resolved line, Null when no line was resolved
AngleOf(resolved) == IF resolved = Null THEN Null ELSE Some(resolved[1].angle)

\* C27: with selection enabled, a click at the position of the preceding
\* mouse move (same lines, same size) passes to onSelect the angle of the
\* line the move highlighted, also when several candidates are at the same
\* anchor distance, and it selects nothing exactly when the move cleared the
\* hover
C27_ClickSelectsTheHoveredLine ==
    [][(/\ pc = "canvas" /\ pc' = "canvas"
        /\ ~ClickIgnored /\ ~MoveIgnored
        /\ pointer # Null /\ pointer' # Null
        /\ pointer[1].event = "move" /\ pointer'[1].event = "click"
        /\ pointer'[1].x = pointer[1].x /\ pointer'[1].y = pointer[1].y)
       => pointer'[1].onSelect = AngleOf(hoveredLine)]_vars

\* a click that followed a move, with two candidates of different angles at
\* the same least anchor distance: the hovered line was selected
C27_Witness ==
    /\ pc = "canvas" /\ pointer # Null
    /\ pointer[1].event = "click"
    /\ \E k, j \in Candidates :
          /\ k < j
          /\ NearestCandidate(k) /\ NearestCandidate(j)
          /\ lines[k].angle # lines[j].angle
          /\ hoveredLine = Some(lines[k])
          /\ pointer[1].onSelect = Some(lines[k].angle)

----------------------------------------------------------------------------
(* Properties of the generator: the target stays among the options *)

\* the two lists hold the same elements the same number of times
SameMultiset(a, b) ==
    /\ Len(a) = Len(b)
    /\ \A k \in 1..Len(a) : CountOf(a, a[k]) = CountOf(b, a[k])

\* C28: every returned stimulus contains its targetAngle at least once in
\* options: the uniqueness repair never removes the last copy, and the
\* shuffle and the quadrant swap only permute the list
C28_TargetStaysInOptions ==
    [][/\ \A k \in 1..Len(stimuli') :
             CountOf(stimuli'[k].options, stimuli'[k].targetAngle) >= 1
       /\ pc = "repair" => CountOf(options', targetAngle) >= 1
       /\ pc \in {"shuffle", "quadrant"} => SameMultiset(options, options')]_vars

\* a returned stimulus of 8 options whose repair loop ran and whose target,
\* moved by the shuffle and the swap, is in the last quadrant
C28_Witness ==
    /\ Generated
    /\ Len(stimuli) = 1
    /\ settings.anglesPerQuadrant = 2
    /\ settings.useCorrectQuadrant /\ settings.correctQuadrant = 4
    /\ correctCount > 1 /\ repairI = correctCount - 1
    /\ IndexOf(stimuli[1].options, stimuli[1].targetAngle) >= 6
    /\ CountOf(stimuli[1].options, stimuli[1].targetAngle) >= 1

----------------------------------------------------------------------------
(* Properties of generation and layout together *)

\* settings/page.tsx lines 175-186: the region of the screen the quadrant
\* selector names for a value: 1 top left, 2 top right, 3 bottom left,
\* 4 bottom right
RegionNames == <<"Top Left", "Top Right", "Bottom Left", "Bottom Right">>

\* the anchor lies in the named region of a canvas of the given size
InRegion(position, name, size) ==
    /\ name \in {"Top Left", "Bottom Left"} => 2 * position.x < Px(size)
    /\ name \in {"Top Right", "Bottom Right"} => 2 * position.x > Px(size)
    /\ name \in {"Top Left", "Top Right"} => 2 * position.y < Px(size)
    /\ name \in {"Bottom Left", "Bottom Right"} => 2 * position.y > Px(size)

\* the Test page shows a stimulus and its canvas has laid out the options
StimulusLaidOut ==
    /\ pc = "mounted"
    /\ currentStimulusIndex \in 0..(Len(stimuli) - 1)
    /\ Len(lines) = Len(stimuli[currentStimulusIndex + 1].options)

\* C29: with useCorrectQuadrant and a valid configuration, after generation
\* and layout at least one line whose angle is the targetAngle has quadrant
\* correctQuadrant - 1 and its anchor in the region of the screen the
\* settings page names for correctQuadrant
C29_TargetLineInNamedRegion ==
    (StimulusLaidOut /\ settings.useCorrectQuadrant) =>
        \E k \in 1..Len(lines) :
            /\ lines[k].angle = stimuli[currentStimulusIndex + 1].targetAngle
            /\ lines[k].quadrant = settings.correctQuadrant - 1
            /\ InRegion(lines[k].position, RegionNames[settings.correctQuadrant], canvasSize)

\* two angles per quadrant, the target placed bottom left: the second line
\* of the third quadrant holds the target
C29_Witness ==
    /\ StimulusLaidOut /\ settings.useCorrectQuadrant
    /\ settings.anglesPerQuadrant = 2 /\ settings.correctQuadrant = 3
    /\ lines[6].angle = stimuli[currentStimulusIndex + 1].targetAngle
    /\ lines[6].quadrant = 2
    /\ lines[5].angle # lines[6].angle
    /\ InRegion(lines[6].position, "Bottom Left", canvasSize)

----------------------------------------------------------------------------
(* Properties of the Test page's stimulus index *)

\* the index is that of a generated stimulus whenever the stimulus view is shown
IndexWithinStimuli ==
    currentStimulusIndex # 0 - 1 =>
        (0 <= currentStimulusIndex /\ currentStimulusIndex < Len(stimuli))

\* while the Test page stays mounted: the index at the start of the step was
\* -1 and starting set it to 0, or a selection increased it by 1
IndexStepsForward ==
    (currentStimulusIndex' # currentStimulusIndex /\ route' # "/results") =>
        \/ currentStimulusIndex = 0 - 1 /\ currentStimulusIndex' = 0
        \/ /\ currentStimulusIndex' = currentStimulusIndex + 1
           /\ Len(results') = Len(results) + 1

\* C30: whenever the Test page shows the stimulus view (currentStimulusIndex
\* is not -1) the index satisfies 0 <= currentStimulusIndex < len(stimuli);
\* the index is set to 0 by starting and afterwards only increases by 1 per
\* selection
C30_IndexWithinStimuli ==
    [][IndexWithinStimuli /\ IndexWithinStimuli' /\ IndexStepsForward]_vars

============================================================================
